---------------------------- MODULE Spec2Model ----------------------------
(***************************************************************************)
(* The polar-plot renderer of glowbaby (src/plot.go): plotSleep/plotFeed   *)
(* build a polarPlot and call Render, which overlays a title, computes the *)
(* radial scale from the last segment, rasterizes every segment as an arc  *)
(* and encodes the image.                                                  *)
(*                                                                         *)
(* Numbers.  Instants are unix seconds.  The float64 values of the code    *)
(* are modelled exactly, as rationals: a day fraction is its numerator     *)
(* over SecondsPerDay; the radial scale is kept as maxDay (the scale is    *)
(* plotImageHeight/2*0.9/maxDay); +Inf and NaN, which the code produces    *)
(* when maxDay = 0, are modelled as such.  float64 rounding is not         *)
(* modelled.  math.Sin and math.Cos are modelled by Bhaskara's rational    *)
(* approximation on whole degrees, in thousandths.                         *)
(*                                                                         *)
(* The sync command (src/main.go, sync) is a second specification,         *)
(* SyncSpec: the pull response is applied to the tables of the database    *)
(* in one transaction, statement by statement, each of which may fail.     *)
(* The database is SQLite's: a transaction that is not committed leaves    *)
(* the file as it was.                                                     *)
(***************************************************************************)
EXTENDS Integers, Sequences, FiniteSets, TLC

VARIABLES
    entry,      \* "plot": through plotSleep/plotFeed; "Render": Render called on a polarPlot
    policy,     \* pp.colSelect: "sleep" or "feed"
    zero,       \* pp.zero
    segments,   \* pp.segments: sequence of <<start, end>>
    pc,         \* position in plotSleep/plotFeed and Render
    img,        \* the image: written pixel |-> colour; every other pixel is white
    titleErr,   \* err of writeText
    maxDay,     \* maxDay of Render
    nanInt,     \* what int(NaN) yields in this build
    idx,        \* index of the next segment of the range loop
    splits,     \* the loop's locals, one record per segment rasterized
    encErr,     \* err of the PNG encoder (line 219); <<>> is nil
    outcome,    \* what the call returned, or how the process ended
    phases      \* history: the phases of Render completed so far, in order

\* The sync command (src/main.go, sync).
VARIABLES
    db,         \* the database file: the committed content of its tables
    tx,         \* the tables as the open transaction sees them; NoTx if none is open
    pullResp,   \* pullResp.Data.Babies
    syncPc,     \* position in sync
    cur,        \* the statement the loops of lines 311-357 are at
    syncErr,    \* what sync returned once syncPc = "returned"; <<>> is nil
    dbBefore    \* history: db when sync was called

syncVars == <<db, tx, pullResp, syncPc, cur, syncErr, dbBefore>>

vars == <<entry, policy, zero, segments, pc, img, titleErr, maxDay, nanInt,
          idx, splits, encErr, outcome, phases, syncVars>>

----------------------------------------------------------------------------
(* Program constants. *)

plotImageWidth == 1024
plotImageHeight == 768
plotTextSize == 16
SecondsPerDay == 86400

(* Bounds of the model. *)

\* Samples per segment are steps 0/NumSteps .. NumSteps/NumSteps (the code: 10000).
NumSteps == 2
\* Longest segment list.
MaxSegs == 2

----------------------------------------------------------------------------
(* time.Local: a zone at UTC+11 (daylight time) that falls back to UTC+10  *)
(* at local 03:00 of local day 4.                                          *)

Hour == 60 * 60
DstOffset == 11 * Hour
StdOffset == 10 * Hour
\* Local midnight starting local day 1 (daylight time in force).
Z0 == SecondsPerDay - DstOffset
\* The instant the clocks go back: local 03:00 daylight time of day 4.
FallBack == Z0 + 3 * SecondsPerDay + 3 * Hour

ZoneOffset(x) == IF x < FallBack THEN DstOffset ELSE StdOffset

\* time.Unix(x, 0).In(time.Local): local wall-clock seconds.
LocalSeconds(x) == x + ZoneOffset(x)

\* Date taking the calendar date in UTC instead of the local zone.
Date_InUTC(x) == x \div SecondsPerDay

\* t.Date(): the local calendar date, as a day number (days since 1970-01-01).
Date(x) == LocalSeconds(x) \div SecondsPerDay

\* time.Date(Y, M, D, 0, 0, 0, 0, time.UTC).Unix()
UTCMidnightUnix(date) == date * SecondsPerDay

\* t.Clock(): hour, minute, second of the local wall clock.
Clock(x) ==
    LET c == LocalSeconds(x) % SecondsPerDay
    IN  [h |-> c \div 3600, m |-> (c % 3600) \div 60, s |-> c % 60]

\* dayDiff(start, end): panics when start is after end, otherwise the
\* difference of the calendar dates.
dayDiff(start, end) ==
    IF start > end
    THEN [ok |-> FALSE, days |-> 0]
    ELSE [ok |-> TRUE,
          days |-> (UTCMidnightUnix(Date(end)) - UTCMidnightUnix(Date(start)))
                       \div SecondsPerDay]

\* splitEpoch(x) of Render: day offset from z and the day fraction (numerator
\* over SecondsPerDay).
splitEpoch(z, x) ==
    LET dd == dayDiff(z, x)
        c  == Clock(x)
    IN  [ok |-> dd.ok, day |-> dd.days,
         frac |-> c.h * 3600 + c.m * 60 + c.s]

----------------------------------------------------------------------------
(* Colour policies. *)

\* sleepColSelect with bands that exclude their lower bound.
sleepColSelect_ExclusiveBands(startD, endD, startFrac, endFrac) ==
    LET hours == (endFrac - startFrac) * 24 + (endD - startD) * 24 * SecondsPerDay
    IN  IF hours > 5 * SecondsPerDay THEN "blue"
        ELSE IF 2 * hours > 3 * SecondsPerDay THEN "green"
        ELSE "red"

\* colSelect of plotSleep.  hours = (endFrac-startFrac)*24 + (endD-startD)*24,
\* here times SecondsPerDay.
sleepColSelect(startD, endD, startFrac, endFrac) ==
    LET hours == (endFrac - startFrac) * 24 + (endD - startD) * 24 * SecondsPerDay
    IN  IF hours >= 5 * SecondsPerDay THEN "blue"
        ELSE IF 2 * hours >= 3 * SecondsPerDay THEN "green"
        ELSE "red"

\* colSelect of plotFeed.
feedColSelect(startD, endD, startFrac, endFrac) ==
    IF startD = endD THEN "blue" ELSE "red"

colSelect(p, startD, endD, startFrac, endFrac) ==
    IF p = "sleep" THEN sleepColSelect(startD, endD, startFrac, endFrac)
    ELSE feedColSelect(startD, endD, startFrac, endFrac)

\* Lines 201-204 of Render: the end fraction after the midnight adjustment.
adjustEndFrac(startD, endD, startFrac, endFrac) ==
    IF endFrac < startFrac
    THEN endFrac + (endD - startD) * SecondsPerDay
    ELSE endFrac


----------------------------------------------------------------------------
(* Geometry of one sample (lines 206-214 of Render). *)

\* math.Sin of a whole number of degrees, in thousandths.
SinDeg(deg) ==
    LET d == deg % 360
        B(x) == (4 * x * (180 - x) * 1000) \div (40500 - x * (180 - x))
    IN  IF d <= 180 THEN B(d) ELSE 0 - B(d - 180)

CosDeg(deg) == SinDeg(deg + 90)

\* int(x) of a finite x = num/den, den > 0: truncation towards zero.
Trunc(num, den) == IF num >= 0 THEN num \div den ELSE 0 - ((0 - num) \div den)

\* int(x) of an infinite x, on every build: a value outside every image.
OutOfRange == 0 - 2^30

\* The interpolated day at step k/NumSteps, times NumSteps.
DayNum(startD, endD, k) == startD * NumSteps + (endD - startD) * k

\* The interpolated fraction at step k/NumSteps, times SecondsPerDay*NumSteps.
FracNum(startFrac, endFrac, k) == startFrac * NumSteps + (endFrac - startFrac) * k

\* d = dayScale * day, with dayScale = plotImageHeight/2*0.9/md, as
\* RadiusNum/RadiusDen (md > 0).
RadiusNum(dn) == plotImageHeight * 9 * dn
RadiusDen(md) == 20 * md * NumSteps

\* The pixel (int(x), int(y)) of step k.  With md = 0 the scale is +Inf: d is
\* NaN where the interpolated day is 0 (both coordinates are int(NaN)) and
\* infinite elsewhere (a coordinate is int(+-Inf)).
Pixel(md, nan, startD, endD, startFrac, endFrac, k) ==
    LET dn  == DayNum(startD, endD, k)
        fn  == FracNum(startFrac, endFrac, k)
        deg == ((360 * fn) \div (SecondsPerDay * NumSteps)) % 360
        den == RadiusDen(md) * 1000
        xn  == (plotImageWidth \div 2) * den + RadiusNum(dn) * SinDeg(deg)
        yn  == (plotImageHeight \div 2) * den - RadiusNum(dn) * CosDeg(deg)
    IN  IF md = 0
        THEN IF dn = 0 THEN <<nan, nan>> ELSE <<OutOfRange, OutOfRange>>
        ELSE <<Trunc(xn, den), Trunc(yn, den)>>

\* image.Rect(0, 0, plotImageWidth, plotImageHeight) holds the point.
InCanvas(p) ==
    /\ 0 <= p[1] /\ p[1] < plotImageWidth
    /\ 0 <= p[2] /\ p[2] < plotImageHeight

\* SetNRGBA keeping the colour of a pixel that was already written.
SetNRGBA_KeepsEarlier(im, p, col) ==
    IF InCanvas(p)
    THEN [q \in DOMAIN im \cup {p} |-> IF q \in DOMAIN im THEN im[q] ELSE col]
    ELSE im

\* img.SetNRGBA(x, y, col): a point outside the image is dropped.
SetNRGBA(im, p, col) ==
    IF InCanvas(p)
    THEN [q \in DOMAIN im \cup {p} |-> IF q = p THEN col ELSE im[q]]
    ELSE im

\* The locals of one iteration of the range loop (lines 196-204).
SegmentLocals(p, z, seg) ==
    LET s == splitEpoch(z, seg[1])
        e == splitEpoch(z, seg[2])
    IN  [ok |-> s.ok /\ e.ok,
         startD |-> s.day, endD |-> e.day,
         startFrac |-> s.frac,
         endFrac |-> adjustEndFrac(s.day, e.day, s.frac, e.frac),
         col |-> colSelect(p, s.day, e.day, s.frac, e.frac)]

\* The sampling loop of lines 206-215, from step k on.
RECURSIVE DrawSamples(_, _, _, _, _)
DrawSamples(im, md, nan, loc, k) ==
    IF k > NumSteps THEN im
    ELSE DrawSamples(
             SetNRGBA(im,
                      Pixel(md, nan, loc.startD, loc.endD, loc.startFrac, loc.endFrac, k),
                      loc.col),
             md, nan, loc, k + 1)

\* The pixels writeText draws for the title at (5, 5+plotTextSize).
TitlePixels == {<<5 + dx, 5 + plotTextSize - dy>> : dx \in 0..1, dy \in 0..1}

\* ctx.DrawString: black glyphs over the image.
DrawTitle(im) ==
    [q \in DOMAIN im \cup TitlePixels |-> IF q \in TitlePixels THEN "black" ELSE im[q]]

\* image.NewNRGBA + draw.Draw with white: no pixel differs from white.
NewImage == [q \in {} |-> "white"]

\* The colour of pixel q of image im.
At(im, q) == IF q \in DOMAIN im THEN im[q] ELSE "white"

----------------------------------------------------------------------------
(* Outcomes.  An error is the chain of its messages, outermost first;     *)
(* <<>> is nil.  bytes is <<>> (nil) or the encoded image.                 *)

EncoderError == <<"png: encoder error">>

\* fmt.Errorf("encoding PNG: %w", err)
WrapEncodeError(err) == <<"encoding PNG">> \o err

\* errors.Unwrap
Unwrap(err) == Tail(err)

\* png.Encode of the image into the buffer.
PngEncode(im) == <<[png |-> im]>>

NoOutcome == [kind |-> "none", bytes |-> <<>>, err |-> <<>>]

\* EncodeResult returning the buffer along with the encoder's error.
EncodeResult_KeepsBytes(im, err) ==
    IF err = <<>>
    THEN [kind |-> "ok", bytes |-> PngEncode(im), err |-> <<>>]
    ELSE [kind |-> "error", bytes |-> PngEncode(im), err |-> WrapEncodeError(err)]

\* Render's two return statements (lines 219-222).
EncodeResult(im, err) ==
    IF err = <<>>
    THEN [kind |-> "ok", bytes |-> PngEncode(im), err |-> <<>>]
    ELSE [kind |-> "error", bytes |-> <<>>, err |-> WrapEncodeError(err)]

\* A run-time panic, and log.Fatalf: the process ends, nothing is returned.
PanicOutcome(msg) == [kind |-> "panic", bytes |-> <<>>, err |-> <<msg>>]
FatalOutcome(msg) == [kind |-> "fatal", bytes |-> <<>>, err |-> <<msg>>]

----------------------------------------------------------------------------
(* Inputs. *)

\* The instant of wall-clock second sec of local day day (day 1 is the day
\* starting at Z0), read in daylight time.
Wall(day, sec) == Z0 + (day - 1) * SecondsPerDay + sec

\* pp.zero: loadOneBaby gives the local midnight of the birthday; a
\* polarPlot built elsewhere may hold any instant (here: noon).
ZeroPool == {Z0, Wall(1, 12 * Hour)}

SegmentPool ==
    { <<Wall(2, 22 * Hour), Wall(3, 2 * Hour)>>,         \* 22:00 -> 02:00, 4h
      <<Wall(2, 22 * Hour), Wall(3, 3 * Hour)>>,         \* 5h
      <<Wall(2, 22 * Hour), Wall(3, 3 * Hour) - 1>>,     \* 4h59m59s
      <<Wall(2, 22 * Hour), Wall(2, 23 * Hour + 1800)>>, \* 1h30m
      <<Wall(2, 22 * Hour), Wall(2, 23 * Hour + 1799)>>, \* 1h29m59s
      <<Wall(2, 22 * Hour), Wall(2, 22 * Hour)>>,        \* start = end
      <<Wall(1, 6 * Hour), Wall(1, 18 * Hour)>>,         \* on the date of zero
      <<Wall(1, 18 * Hour), Wall(1, 19 * Hour)>>,        \* on the date of zero
      <<Wall(0, 23 * Hour), Wall(1, 6 * Hour)>>,         \* starts before zero's date
      <<Wall(3, 2 * Hour), Wall(2, 22 * Hour)>>,         \* end before start
      <<FallBack - 600, FallBack + 600>>,                \* 02:50 -> 02:10, clocks go back
      <<Wall(5, 23 * Hour) + Hour, Wall(6, 1 * Hour) + Hour>> } \* standard time: 23:00 -> 01:00

InstantPool == {s[1] : s \in SegmentPool} \cup {s[2] : s \in SegmentPool}

SegLists == UNION {[1..n -> SegmentPool] : n \in 0..MaxSegs}

\* ORDER BY StartTimestamp
SortedByStart(segs) ==
    \A a, b \in 1..Len(segs) : a < b => segs[a][1] <= segs[b][1]

----------------------------------------------------------------------------
(* The state machine. *)

----------------------------------------------------------------------------
(* The sync command: tables, pull responses, statements. *)

\* Bound: the number of baby records in a pull response.
MaxBabies == 2

NoTx == [open |-> FALSE]

\* A row of BabyData or BabyFeedData (the columns other than ID, BabyID and
\* StartTimestamp are carried the same way and left out).
Row(id, baby, start) == [ID |-> id, BabyID |-> baby, StartTimestamp |-> start]

\* initDB: three tables keyed by their primary keys.  Babies holds the sync
\* status of each baby that login recorded.
Tables(babies, data, feed) ==
    [Babies |-> babies, BabyData |-> data, BabyFeedData |-> feed]

NoRows == [id \in {} |-> Row(0, 0, 0)]

DbPool ==
    { Tables((1 :> [SyncTime |-> 0, SyncToken |-> "null"]), NoRows, NoRows),
      Tables((1 :> [SyncTime |-> 5, SyncToken |-> "s1"])
                 @@ (2 :> [SyncTime |-> 5, SyncToken |-> "s2"]),
             (1 :> Row(1, 1, 10)) @@ (2 :> Row(2, 2, 11)),
             (1 :> Row(1, 2, 12))) }

\* One element of pullResp.Data.Babies.
BabyRec(baby, time, token, dataRemove, dataUpdate, feedRemove, feedUpdate) ==
    [BabyID |-> baby, SyncTime |-> time, SyncToken |-> token,
     BabyData |-> [Remove |-> dataRemove, Update |-> dataUpdate],
     BabyFeedData |-> [Remove |-> feedRemove, Update |-> feedUpdate]]

\* The server's answer is whatever JSON decodes into PullResponse.
BabyRecPool ==
    { BabyRec(1, 7, "t1", <<>>, <<Row(1, 1, 20)>>, <<>>, <<>>),
      BabyRec(1, 7, "t1", <<Row(1, 1, 0)>>, <<Row(1, 1, 30)>>, <<>>, <<>>),   \* ID 1 in both lists
      BabyRec(2, 8, "t2", <<Row(1, 1, 0)>>, <<>>, <<>>, <<Row(1, 2, 40)>>),
      BabyRec(2, 9, "t2b", <<>>, <<>>, <<>>, <<>>),
      BabyRec(3, 8, "t3", <<>>, <<Row(2, 3, 50)>>, <<Row(1, 3, 0)>>,          \* a baby login never recorded
              <<Row(1, 3, 60), Row(1, 3, 61)>>),
      BabyRec(1, 7, "t1", <<Row(1, 1, 0), Row(2, 1, 0)>>, <<>>, <<Row(1, 1, 0)>>,
              <<Row(1, 1, 70)>>) }

PullResponses == UNION {[1..n -> BabyRecPool] : n \in 0..MaxBabies}

\* The five statements of one iteration of the loop over the babies, in the
\* order of lines 312-355.
Stages == <<"status", "dataRemove", "dataUpdate", "feedRemove", "feedUpdate">>

\* How many times the statement of stage s runs for baby record b.
StageLen(resp, b, s) ==
    IF s = 1 THEN 1
    ELSE IF s = 2 THEN Len(resp[b].BabyData.Remove)
    ELSE IF s = 3 THEN Len(resp[b].BabyData.Update)
    ELSE IF s = 4 THEN Len(resp[b].BabyFeedData.Remove)
    ELSE Len(resp[b].BabyFeedData.Update)

\* The loops of lines 311-357: the first statement to run from (b, s, k) on;
\* past the last baby record it is the commit of line 360.
RECURSIVE Seek(_, _, _, _)
Seek(resp, b, s, k) ==
    IF b > Len(resp) THEN [b |-> b, s |-> 0, k |-> 0]
    ELSE IF k <= StageLen(resp, b, s) THEN [b |-> b, s |-> s, k |-> k]
    ELSE IF s < Len(Stages) THEN Seek(resp, b, s + 1, 1)
    ELSE Seek(resp, b + 1, 1, 1)

NoCur == [b |-> 0, s |-> 0, k |-> 0]

\* UPDATE Babies SET SyncTime = ?, SyncToken = ? WHERE BabyID = ?
\* (a statement that matches no row changes nothing and is no error)
UpdateBabies(t, baby) ==
    IF baby.BabyID \in DOMAIN t.Babies
    THEN [t EXCEPT !.Babies[baby.BabyID] =
              [SyncTime |-> baby.SyncTime, SyncToken |-> baby.SyncToken]]
    ELSE t

\* The rows of a table other than the one with this ID.
DeleteFrom(rows, id) == [i \in DOMAIN rows \ {id} |-> rows[i]]

\* INSERT OR REPLACE on the primary key ID.
InsertOrReplace(rows, row) == (row.ID :> row) @@ rows

\* The commands other than sync leave the sync state alone.
SyncIdle ==
    /\ db = Tables(NoRows, NoRows, NoRows)
    /\ tx = NoTx
    /\ pullResp = <<>>
    /\ syncPc = "idle"
    /\ cur = NoCur
    /\ syncErr = <<>>
    /\ dbBefore = db

----------------------------------------------------------------------------
Init ==
    /\ entry \in {"plot", "Render"}
    /\ policy \in {"sleep", "feed"}
    /\ zero \in ZeroPool
    /\ segments \in SegLists
    /\ entry = "plot" => zero = Z0 /\ SortedByStart(segments)
    /\ pc = IF entry = "plot" THEN "plot" ELSE "init"
    /\ img = NewImage
    /\ titleErr = FALSE
    /\ maxDay = 0
    /\ nanInt = 0
    /\ idx = 1
    /\ splits = <<>>
    /\ encErr = <<>>
    /\ outcome = NoOutcome
    /\ phases = <<>>
    /\ SyncIdle

\* plotSleep lines 99-119, plotFeed lines 151-167: log.Fatalf on an empty
\* list, otherwise Render is called.
PlotGuard ==
    /\ pc = "plot"
    /\ IF Len(segments) = 0
       THEN /\ pc' = "fatal"
            /\ outcome' = FatalOutcome(IF policy = "sleep"
                                       THEN "Sorry, can't plot without any sleep recorded!"
                                       ELSE "Sorry, can't plot without any feeds recorded!")
       ELSE /\ pc' = "init"
            /\ UNCHANGED outcome
    /\ UNCHANGED <<entry, policy, zero, segments, img, titleErr, maxDay, nanInt,
                   idx, splits, encErr, phases>>
    /\ UNCHANGED syncVars

\* Render lines 171-173: the all-white image.
RenderInit ==
    /\ pc = "init"
    /\ img' = NewImage
    /\ phases' = Append(phases, "Init")
    /\ pc' = "title"
    /\ UNCHANGED <<entry, policy, zero, segments, titleErr, maxDay, nanInt,
                   idx, splits, encErr, outcome>>
    /\ UNCHANGED syncVars

\* WriteTitleStep returning writeText's error to the caller.
WriteTitleStep_ReturnsError(ok) ==
    /\ titleErr' = ~ok
    /\ img' = IF ok THEN DrawTitle(img) ELSE img
    /\ phases' = Append(phases, "TitleOverlaid")
    /\ pc' = IF ok THEN "scale" ELSE "done"
    /\ outcome' = IF ok THEN outcome
                  ELSE [kind |-> "error", bytes |-> <<>>, err |-> <<"loading font file">>]

\* Render lines 175-180: writeText; its error is logged and Render goes on.
WriteTitleStep(ok) ==
    /\ titleErr' = ~ok
    /\ img' = IF ok THEN DrawTitle(img) ELSE img
    /\ phases' = Append(phases, "TitleOverlaid")
    /\ pc' = "scale"
    /\ UNCHANGED outcome

WriteTitle ==
    /\ pc = "title"
    /\ \E ok \in BOOLEAN : WriteTitleStep(ok)
    /\ UNCHANGED <<entry, policy, zero, segments, maxDay, nanInt, idx, splits, encErr>>
    /\ UNCHANGED syncVars

\* Render lines 193-194: maxDay from the last segment's end, then dayScale.
\* An empty list makes the index expression panic; dayDiff may panic; a
\* maxDay of 0 makes dayScale +Inf, and int(NaN) is then the build's choice.
ComputeScaleStep(nan) ==
    IF Len(segments) = 0
    THEN /\ pc' = "panic"
         /\ outcome' = PanicOutcome("index out of range")
         /\ UNCHANGED <<maxDay, nanInt, phases>>
    ELSE LET last == splitEpoch(zero, segments[Len(segments)][2])
         IN  IF ~last.ok
             THEN /\ pc' = "panic"
                  /\ outcome' = PanicOutcome("start after end")
                  /\ UNCHANGED <<maxDay, nanInt, phases>>
             ELSE /\ maxDay' = last.day
                  /\ nanInt' = IF last.day = 0 THEN nan ELSE nanInt
                  /\ phases' = Append(phases, "ScaleComputed")
                  /\ pc' = "loop"
                  /\ UNCHANGED outcome

ComputeScale ==
    /\ pc = "scale"
    /\ \E nan \in {0, OutOfRange} : ComputeScaleStep(nan)
    /\ UNCHANGED <<entry, policy, zero, segments, img, titleErr, idx, splits, encErr>>
    /\ UNCHANGED syncVars

\* RasterizeStep leaving the range loop after its first iteration.
RasterizeStep_LeavesEarly(loc) ==
    IF ~loc.ok
    THEN /\ pc' = "panic"
         /\ outcome' = PanicOutcome("start after end")
         /\ UNCHANGED <<img, idx, splits, phases>>
    ELSE /\ img' = DrawSamples(img, maxDay, nanInt, loc, 0)
         /\ splits' = Append(splits, loc)
         /\ idx' = idx + 1
         /\ pc' = "encode"
         /\ phases' = IF idx = Len(segments)
                      THEN Append(phases, "SegmentsRasterized") ELSE phases
         /\ UNCHANGED outcome

\* Render lines 195-216: one iteration of the range loop, its sampling loop
\* included.
RasterizeStep(loc) ==
    IF ~loc.ok
    THEN /\ pc' = "panic"
         /\ outcome' = PanicOutcome("start after end")
         /\ UNCHANGED <<img, idx, splits, phases>>
    ELSE /\ img' = DrawSamples(img, maxDay, nanInt, loc, 0)
         /\ splits' = Append(splits, loc)
         /\ idx' = idx + 1
         /\ IF idx = Len(segments)
            THEN /\ pc' = "encode"
                 /\ phases' = Append(phases, "SegmentsRasterized")
            ELSE UNCHANGED <<pc, phases>>
         /\ UNCHANGED outcome

RasterizeSegment ==
    /\ pc = "loop"
    /\ idx <= Len(segments)
    /\ RasterizeStep(SegmentLocals(policy, zero, segments[idx]))
    /\ UNCHANGED <<entry, policy, zero, segments, titleErr, maxDay, nanInt, encErr>>
    /\ UNCHANGED syncVars

\* Render lines 218-222: the PNG encoder, which may fail.
EncodeStep(err) ==
    /\ encErr' = err
    /\ outcome' = EncodeResult(img, err)
    /\ phases' = IF err = <<>> THEN Append(phases, "Encoded") ELSE phases
    /\ pc' = "done"

Encode ==
    /\ pc = "encode"
    /\ \E err \in {<<>>, EncoderError} : EncodeStep(err)
    /\ UNCHANGED <<entry, policy, zero, segments, img, titleErr, maxDay, nanInt,
                   idx, splits>>
    /\ UNCHANGED syncVars

Next ==
    \/ PlotGuard
    \/ RenderInit
    \/ WriteTitle
    \/ ComputeScale
    \/ RasterizeSegment
    \/ Encode

Spec == Init /\ [][Next]_vars

----------------------------------------------------------------------------
(* The sync command. *)

plotVars == <<entry, policy, zero, segments, pc, img, titleErr, maxDay, nanInt,
              idx, splits, encErr, outcome, phases>>

\* main, case "sync": the database as earlier commands left it; nothing is
\* plotted.
SyncInit ==
    /\ entry = "sync"
    /\ policy = "sleep"
    /\ zero = Z0
    /\ segments = <<>>
    /\ pc = "idle"
    /\ img = NewImage
    /\ titleErr = FALSE
    /\ maxDay = 0
    /\ nanInt = 0
    /\ idx = 1
    /\ splits = <<>>
    /\ encErr = <<>>
    /\ outcome = NoOutcome
    /\ phases = <<>>
    /\ db \in DbPool
    /\ tx = NoTx
    /\ pullResp = <<>>
    /\ syncPc = "pull"
    /\ cur = NoCur
    /\ syncErr = <<>>
    /\ dbBefore = db

\* A return with an error.  With a transaction open, the deferred cancel of
\* txCtx (line 304) has database/sql roll it back, and main ends the process
\* with log.Fatalf: nothing of the transaction reaches the file.
ReturnError(msg) ==
    /\ syncErr' = <<msg>>
    /\ syncPc' = "returned"
    /\ tx' = NoTx
    /\ UNCHANGED <<db, cur>>

\* sync lines 233-299: the auth token and the babies are read, the pull
\* request is made and its response decoded.  Nothing is written.
LoadAndPull ==
    /\ syncPc = "pull"
    /\ \/ /\ \E msg \in {"no auth token; have you logged in?",
                        "making HTTP pull request",
                        "decoding JSON pull response"} : ReturnError(msg)
          /\ UNCHANGED pullResp
       \/ /\ pullResp' \in PullResponses
          /\ syncPc' = "begin"
          /\ UNCHANGED <<db, tx, cur, syncErr>>
    /\ UNCHANGED <<dbBefore, plotVars>>

\* sync lines 303-308.
BeginTxStep(ok) ==
    IF ok
    THEN LET first == Seek(pullResp, 1, 1, 1)
         IN  /\ tx' = [open |-> TRUE, t |-> db]
             /\ cur' = first
             /\ syncPc' = IF first.s = 0 THEN "commit" ELSE "exec"
             /\ UNCHANGED <<db, syncErr>>
    ELSE ReturnError("starting DB transaction")

BeginTx ==
    /\ syncPc = "begin"
    /\ \E ok \in BOOLEAN : BeginTxStep(ok)
    /\ UNCHANGED <<pullResp, dbBefore, plotVars>>

\* tx.ExecContext: the statement changes the tables as the transaction sees
\* them, and the loops go on to the next statement; or it fails and sync
\* returns the error.
Exec(ok, tables, msg) ==
    IF ok
    THEN LET nxt == Seek(pullResp, cur.b, cur.s, cur.k + 1)
         IN  /\ tx' = [tx EXCEPT !.t = tables]
             /\ cur' = nxt
             /\ syncPc' = IF nxt.s = 0 THEN "commit" ELSE "exec"
             /\ UNCHANGED <<db, syncErr>>
    ELSE ReturnError(msg)

\* UpdateSyncStatusStep run on db, outside the transaction.
UpdateSyncStatusStep_OutsideTx(ok) ==
    IF ok
    THEN LET nxt == Seek(pullResp, cur.b, cur.s, cur.k + 1)
         IN  /\ db' = UpdateBabies(db, pullResp[cur.b])
             /\ tx' = [tx EXCEPT !.t = UpdateBabies(tx.t, pullResp[cur.b])]
             /\ cur' = nxt
             /\ syncPc' = IF nxt.s = 0 THEN "commit" ELSE "exec"
             /\ UNCHANGED syncErr
    ELSE ReturnError("updating baby sync status in DB")

\* sync lines 312-316.
UpdateSyncStatusStep(ok) ==
    Exec(ok, UpdateBabies(tx.t, pullResp[cur.b]), "updating baby sync status in DB")

UpdateSyncStatus ==
    /\ syncPc = "exec" /\ cur.s = 1
    /\ \E ok \in BOOLEAN : UpdateSyncStatusStep(ok)
    /\ UNCHANGED <<pullResp, dbBefore, plotVars>>

\* sync lines 318-323.
DeleteBabyDataStep(ok) ==
    Exec(ok,
         [tx.t EXCEPT !.BabyData =
              DeleteFrom(@, pullResp[cur.b].BabyData.Remove[cur.k].ID)],
         "deleting baby data from DB")

DeleteBabyData ==
    /\ syncPc = "exec" /\ cur.s = 2
    /\ \E ok \in BOOLEAN : DeleteBabyDataStep(ok)
    /\ UNCHANGED <<pullResp, dbBefore, plotVars>>

\* sync lines 327-335.
ReplaceBabyDataStep(ok) ==
    Exec(ok,
         [tx.t EXCEPT !.BabyData =
              InsertOrReplace(@, pullResp[cur.b].BabyData.Update[cur.k])],
         "applying baby data update in DB")

ReplaceBabyData ==
    /\ syncPc = "exec" /\ cur.s = 3
    /\ \E ok \in BOOLEAN : ReplaceBabyDataStep(ok)
    /\ UNCHANGED <<pullResp, dbBefore, plotVars>>

\* sync lines 338-343.
DeleteBabyFeedDataStep(ok) ==
    Exec(ok,
         [tx.t EXCEPT !.BabyFeedData =
              DeleteFrom(@, pullResp[cur.b].BabyFeedData.Remove[cur.k].ID)],
         "deleting baby data from DB")

DeleteBabyFeedData ==
    /\ syncPc = "exec" /\ cur.s = 4
    /\ \E ok \in BOOLEAN : DeleteBabyFeedDataStep(ok)
    /\ UNCHANGED <<pullResp, dbBefore, plotVars>>

\* sync lines 347-355.
ReplaceBabyFeedDataStep(ok) ==
    Exec(ok,
         [tx.t EXCEPT !.BabyFeedData =
              InsertOrReplace(@, pullResp[cur.b].BabyFeedData.Update[cur.k])],
         "applying baby feed data update in DB")

ReplaceBabyFeedData ==
    /\ syncPc = "exec" /\ cur.s = 5
    /\ \E ok \in BOOLEAN : ReplaceBabyFeedDataStep(ok)
    /\ UNCHANGED <<pullResp, dbBefore, plotVars>>

\* sync lines 360-364: the commit makes the transaction's tables the content
\* of the file, all at once; a failed commit leaves the file as it was.
CommitStep(ok) ==
    IF ok
    THEN /\ db' = tx.t
         /\ tx' = NoTx
         /\ syncPc' = "returned"
         /\ UNCHANGED <<cur, syncErr>>
    ELSE ReturnError("committing DB transaction")

Commit ==
    /\ syncPc = "commit"
    /\ \E ok \in BOOLEAN : CommitStep(ok)
    /\ UNCHANGED <<pullResp, dbBefore, plotVars>>

SyncNext ==
    \/ LoadAndPull
    \/ BeginTx
    \/ UpdateSyncStatus
    \/ DeleteBabyData
    \/ ReplaceBabyData
    \/ DeleteBabyFeedData
    \/ ReplaceBabyFeedData
    \/ Commit

SyncSpec == SyncInit /\ [][SyncNext]_vars

----------------------------------------------------------------------------
(* Properties. *)

\* The instant at which local day d begins (day 1 begins at Z0; from the
\* fall-back on, every wall-clock reading comes an hour later).
LocalDayStart(d) ==
    IF Wall(d, 0) < FallBack THEN Wall(d, 0) ELSE Wall(d, 0) + Hour

\* a and b lie between the same two consecutive local midnights.
OnSameLocalDate(a, b) ==
    \E d \in 0..8 :
        /\ LocalDayStart(d) <= a /\ a < LocalDayStart(d + 1)
        /\ LocalDayStart(d) <= b /\ b < LocalDayStart(d + 1)

IsPrefix(s, full) == Len(s) <= Len(full) /\ \A n \in 1..Len(s) : s[n] = full[n]

\* The order of Render's phases in the code.
RenderOrder == <<"Init", "TitleOverlaid", "ScaleComputed", "SegmentsRasterized", "Encoded">>

\* C1, as claimed: the phases of one Render call are completed in the order
\* Init, ScaleComputed, SegmentsRasterized, TitleOverlaid, Encoded; the title
\* overlay is attempted only after every segment has been rasterized.
C1_TitleAfterSegments ==
    /\ IsPrefix(phases, <<"Init", "ScaleComputed", "SegmentsRasterized",
                          "TitleOverlaid", "Encoded">>)
    /\ pc = "scale" => Len(segments) > 0 /\ Len(splits) = Len(segments)

\* C1, amended: the phases of one Render call are completed in the order
\* Init, TitleOverlaid (attempted on the blank image), ScaleComputed,
\* SegmentsRasterized, Encoded.  No segment is rasterized before the scale is
\* computed, the title is attempted before the scale is computed, and the
\* encoder runs only after every segment has been rasterized.
C1_PhaseOrder ==
    /\ IsPrefix(phases, RenderOrder)
    /\ splits # <<>> => Len(phases) >= 3
    /\ pc \in {"scale", "loop", "encode", "done"} => Len(phases) >= 2
    /\ pc = "title" => img = NewImage /\ splits = <<>>
    /\ pc = "scale" => splits = <<>>
    /\ pc \in {"encode", "done"} => Len(splits) = Len(segments) /\ Len(phases) >= 4
    /\ outcome.kind = "ok" => phases = RenderOrder

\* C1 witness: a call on two segments that completed every phase.
C1_Witness ==
    /\ pc = "done" /\ outcome.kind = "ok"
    /\ phases = RenderOrder
    /\ Len(segments) = 2 /\ Len(splits) = 2

\* C2, as claimed: when Render is called with an empty segment list, the
\* call ends in an EmptyInputError returned to the caller, before any segment
\* is rasterized and without encoding; the process is never aborted.
C2_EmptyInputError ==
    (Len(segments) = 0 /\ phases # <<>>) =>
        /\ outcome.kind \notin {"panic", "fatal", "ok"}
        /\ splits = <<>> /\ pc # "encode"
        /\ pc = "done" => outcome.kind = "error" /\ outcome.err = <<"EmptyInputError">>

\* The last segment ends on the calendar date of zero.
LastEndOnZeroDate ==
    /\ Len(segments) > 0
    /\ zero <= segments[Len(segments)][2]
    /\ OnSameLocalDate(segments[Len(segments)][2], zero)

\* C3, as claimed: when the last segment's end is on the calendar date of
\* zero (maxDay = 0), Render fails with a DegenerateScaleError: no scale is
\* computed, nothing is rasterized or encoded.
C3_DegenerateScaleError ==
    LastEndOnZeroDate =>
        /\ pc \notin {"loop", "encode"}
        /\ splits = <<>>
        /\ outcome.kind # "ok"
        /\ pc = "done" => outcome.kind = "error" /\ outcome.err = <<"DegenerateScaleError">>

\* No segment is malformed for Render: every segment starts at or after
\* zero and ends at or after its start.
ValidSegments ==
    /\ Len(segments) > 0
    /\ \A n \in 1..Len(segments) :
           zero <= segments[n][1] /\ segments[n][1] <= segments[n][2]

\* The image after the segments of locs were drawn, in order, over base.
RECURSIVE Painted(_, _, _)
Painted(base, locs, n) ==
    IF n > Len(locs) THEN base
    ELSE Painted(DrawSamples(base, maxDay, nanInt, locs[n], 0), locs, n + 1)

\* C4: when writeText fails, Render on a non-empty valid segment list is not
\* aborted: it never panics or exits and never stops before the encoder (in
\* the loop a segment is always left to rasterize), every segment is
\* rasterized before the encoder runs, the only
\* error it can return is the encoder's, and when the encoder succeeds it
\* returns without error the encoding of the image a successful overlay
\* would have given, less the title's pixels.
C4_TitleFailureNotFatal ==
    (titleErr /\ ValidSegments) =>
        /\ pc \notin {"panic", "fatal"}
        /\ pc \in {"plot", "init", "title", "scale", "loop", "encode", "done"}
        /\ pc = "loop" => idx <= Len(segments)
        /\ pc \in {"encode", "done"} => Len(splits) = Len(segments)
        /\ pc = "done" =>
              /\ outcome.kind = IF encErr = <<>> THEN "ok" ELSE "error"
              /\ encErr = <<>> =>
                    /\ outcome.err = <<>>
                    /\ outcome.bytes = PngEncode(Painted(NewImage, splits, 1))
                    /\ \A q \in DOMAIN Painted(DrawTitle(NewImage), splits, 1) :
                           q \notin TitlePixels =>
                               At(img, q) = At(Painted(DrawTitle(NewImage), splits, 1), q)

\* C4 witness: the overlay failed, two valid segments were rasterized and the
\* encoded image was returned.
C4_Witness ==
    /\ titleErr /\ ValidSegments
    /\ pc = "done" /\ outcome.kind = "ok"
    /\ Len(segments) = 2 /\ DOMAIN img # {}

\* C5, as claimed: when the encoder fails, Render returns no bytes and the
\* encoder's error itself.
C5_EncoderErrorUnchanged ==
    encErr # <<>> =>
        /\ pc = "done" /\ outcome.kind = "error"
        /\ outcome.bytes = <<>>
        /\ outcome.err = encErr

\* C5, amended: when the encoder fails, Render returns no bytes and an error
\* that wraps the encoder's error under the message "encoding PNG"; the
\* encoder's error is what unwrapping it gives.
C5_EncoderErrorWrapped ==
    encErr # <<>> =>
        /\ pc = "done" /\ outcome.kind = "error"
        /\ outcome.bytes = <<>>
        /\ outcome.err = <<"encoding PNG">> \o encErr
        /\ Unwrap(outcome.err) = encErr
        /\ outcome.err # encErr

\* C5 witness: the encoder failed on a rasterized image.
C5_Witness ==
    /\ encErr = EncoderError /\ pc = "done"
    /\ Len(splits) = Len(segments) /\ DOMAIN img # {}

Min(a, b) == IF a <= b THEN a ELSE b

LastEnd == segments[Len(segments)][2]

\* The radius RadiusNum(dn)/RadiusDen(md) is at most 0.9 * min(width, height) / 2.
RadiusWithinBound(md, dn) ==
    RadiusNum(dn) * 20 <= 9 * Min(plotImageWidth, plotImageHeight) * RadiusDen(md)

\* The last segment has the greatest end day among the segments.
LastEndIsMaxDay == \A n \in 1..Len(segments) : Date(segments[n][2]) <= Date(LastEnd)

\* Every sample of every segment rasterized so far is within the bound.
SamplesWithinBound ==
    \A n \in 1..Len(splits) : \A k \in 0..NumSteps :
        RadiusWithinBound(maxDay, DayNum(splits[n].startD, splits[n].endD, k))

\* The scale was computed from a last segment that ends on a later calendar
\* day than zero.
ScaledFromLaterDay ==
    /\ pc \in {"loop", "encode", "done"}
    /\ Date(LastEnd) > Date(zero)

\* C6, as claimed: when the last segment ends on a later calendar day than
\* zero, the radius of its end (scale times its day offset) is at most
\* 0.9 * min(width, height) / 2, and when the last segment has the greatest
\* end day, so is the radius of every sample of every segment.
C6_RadiusBound ==
    ScaledFromLaterDay =>
        /\ maxDay = Date(LastEnd) - Date(zero)
        /\ RadiusWithinBound(maxDay, maxDay * NumSteps)
        /\ LastEndIsMaxDay => SamplesWithinBound

\* C6, the part that holds of the code: the bound on the last segment's end,
\* and the bound on every sample when, besides, no segment ends before it
\* starts.
C6_RadiusBoundStartBeforeEnd ==
    ScaledFromLaterDay =>
        /\ maxDay = Date(LastEnd) - Date(zero)
        /\ RadiusWithinBound(maxDay, maxDay * NumSteps)
        /\ (LastEndIsMaxDay /\ \A n \in 1..Len(segments) : segments[n][1] <= segments[n][2])
               => SamplesWithinBound

\* The instants Render has mapped with splitEpoch, or was mapping when it
\* stopped.
MappedInstants ==
    IF pc \in {"plot", "init", "title", "scale", "fatal"} \/ Len(segments) = 0 THEN {}
    ELSE {LastEnd} \cup {segments[n][j] : n \in 1..Min(idx, Len(segments)), j \in 1..2}

WallDuration(n) ==
    LET s == splitEpoch(zero, segments[n][1])
        e == splitEpoch(zero, segments[n][2])
    IN  (e.frac - s.frac) + (e.day - s.day) * SecondsPerDay

C9_AdjustedEndNotBelowStart ==
    \A n \in 1..Len(splits) :
        /\ segments[n][1] <= segments[n][2] =>
              /\ splits[n].endFrac >= splits[n].startFrac
              /\ \A k \in 0..(NumSteps - 1) :
                     FracNum(splits[n].startFrac, splits[n].endFrac, k)
                         <= FracNum(splits[n].startFrac, splits[n].endFrac, k + 1)
        /\ ( /\ Clock(segments[n][1]) = [h |-> 22, m |-> 0, s |-> 0]
             /\ Clock(segments[n][2]) = [h |-> 2, m |-> 0, s |-> 0]
             /\ Date(segments[n][2]) = Date(segments[n][1]) + 1 )
               => /\ splits[n].startFrac * 24 = 22 * SecondsPerDay
                  /\ splits[n].endFrac * 24 = 26 * SecondsPerDay

\* C9, the part that holds of the code: the same, for the segments whose two
\* ends are under the same offset of the local zone.
C9_AdjustedEndSameOffset ==
    \A n \in 1..Len(splits) :
        /\ ( /\ segments[n][1] <= segments[n][2]
             /\ ZoneOffset(segments[n][1]) = ZoneOffset(segments[n][2]) )
               => splits[n].endFrac >= splits[n].startFrac
        /\ ( /\ Clock(segments[n][1]) = [h |-> 22, m |-> 0, s |-> 0]
             /\ Clock(segments[n][2]) = [h |-> 2, m |-> 0, s |-> 0]
             /\ Date(segments[n][2]) = Date(segments[n][1]) + 1 )
               => /\ splits[n].startFrac * 24 = 22 * SecondsPerDay
                  /\ splits[n].endFrac * 24 = 26 * SecondsPerDay

\* The pixels of the image that the n-th rasterized segment sampled.
SampledBy(n) ==
    {q \in {Pixel(maxDay, nanInt, splits[n].startD, splits[n].endD,
                  splits[n].startFrac, splits[n].endFrac, k) : k \in 0..NumSteps} :
        InCanvas(q)}

\* The samples of the n-th rasterized segment that fall outside the image.
DroppedBy(n) ==
    {q \in {Pixel(maxDay, nanInt, splits[n].startD, splits[n].endD,
                  splits[n].startFrac, splits[n].endFrac, k) : k \in 0..NumSteps} :
        ~InCanvas(q)}

AllSampled == UNION {SampledBy(n) : n \in 1..Len(splits)}

\* The rasterized segments that sampled q.
Sampling(q) == {n \in 1..Len(splits) : q \in SampledBy(n)}

\* The last rasterized segment that sampled q.
LastSampling(q) ==
    LET S == Sampling(q)
    IN  CHOOSE n \in S : \A o \in S : o <= n

\* C10: after the segments rasterized so far, every pixel that one of them
\* sampled has the colour of the last of them, in list order, that sampled
\* it; a sample outside the image changes no pixel and raises no error (the
\* loop goes on to the next segment or to the encoder); every other pixel
\* has its earlier content: the title where it was drawn, white elsewhere.
C10_PainterOrder ==
    /\ \A q \in AllSampled : At(img, q) = splits[LastSampling(q)].col
    /\ \A q \in DOMAIN img : InCanvas(q)
    /\ \A q \in (DOMAIN img \cup TitlePixels) \ AllSampled :
           At(img, q) = IF q \in TitlePixels /\ Len(phases) >= 2 /\ ~titleErr
                        THEN "black" ELSE "white"
    /\ (splits # <<>> /\ \E n \in 1..Len(splits) : DroppedBy(n) # {}) =>
           \/ pc \in {"loop", "encode", "done"} /\ outcome.kind \in {"none", "ok", "error"}
           \/ /\ pc = "panic" /\ idx <= Len(segments)
              /\ ~SegmentLocals(policy, zero, segments[idx]).ok

\* C10 witness: all segments are rasterized; a pixel sampled by both has the
\* second segment's colour, which differs from the first's, and a sample of
\* the first segment fell outside the image.
C10_Witness ==
    /\ pc = "done" /\ Len(splits) = 2
    /\ splits[1].col # splits[2].col
    /\ SampledBy(1) \cap SampledBy(2) # {}
    /\ DroppedBy(1) # {}

-----------------------------------------------------------------------------
\* The instants splitEpoch has been applied to so far: the end of the last
\* segment once the scale is computed (or the scale step panicked on it), the
\* two ends of every rasterized segment, and the two ends of the segment a
\* panicking iteration was mapping.
ScaleMapped ==
    /\ Len(segments) > 0
    /\ \/ \E n \in 1..Len(phases) : phases[n] = "ScaleComputed"
       \/ pc = "panic"

InstantsMapped ==
    (IF ScaleMapped THEN {LastEnd} ELSE {})
    \cup {segments[n][j] : n \in 1..Len(splits), j \in 1..2}
    \cup (IF pc = "panic" /\ Len(splits) < Len(segments)
             /\ \E n \in 1..Len(phases) : phases[n] = "ScaleComputed"
          THEN {segments[idx][1], segments[idx][2]} ELSE {})

\* x lies before the local midnight that starts the calendar date of z.
BeforeLocalDate(x, z) ==
    \E d \in 0..8 :
        /\ LocalDayStart(d) <= z /\ z < LocalDayStart(d + 1)
        /\ x < LocalDayStart(d)

\* The call stopped on a calendar mapping: dayDiff's panic, or an
\* OutOfOrderInstant error.
MappingFailed ==
    \/ outcome = PanicOutcome("start after end")
    \/ (outcome.kind = "error" /\ outcome.err = <<"OutOfOrderInstant">>)

\* C11, as claimed: once an instant that precedes the calendar date of zero
\* has been mapped, Render has returned an OutOfOrderInstant error to its
\* caller (no panic); and while every mapped instant lies on or after the
\* calendar date of zero, the call has not failed on a calendar mapping.
C11_OutOfOrderInstantError ==
    /\ (\E x \in InstantsMapped : BeforeLocalDate(x, zero)) =>
           /\ pc = "done"
           /\ outcome.kind = "error" /\ outcome.err = <<"OutOfOrderInstant">>
    /\ (\A x \in InstantsMapped : ~BeforeLocalDate(x, zero)) => ~MappingFailed

-----------------------------------------------------------------------------
(* sync. *)

SyncReturnedNil == syncPc = "returned" /\ syncErr = <<>>

\* The entries of the response that name a row of a table: entry k of the
\* Remove list (ph = 0) or of the Update list (ph = 1) of baby record b.
Listed(T, b, ph) ==
    IF ph = 0 THEN pullResp[b][T].Remove ELSE pullResp[b][T].Update

Entries(T) ==
    {e \in [b : 1..Len(pullResp), ph : {0, 1}, k : 1..4] :
        e.k <= Len(Listed(T, e.b, e.ph))}

EntryRow(T, e) == Listed(T, e.b, e.ph)[e.k]

EntriesOn(T, id) == {e \in Entries(T) : EntryRow(T, e).ID = id}

RemovedIDs(T) == {EntryRow(T, e).ID : e \in {x \in Entries(T) : x.ph = 0}}

UpdatedIDs(T) == {EntryRow(T, e).ID : e \in {x \in Entries(T) : x.ph = 1}}

\* e1 comes before e2 in the response: an earlier baby record; in the same
\* record, the Remove list before the Update list; in the same list, an
\* earlier place.
ComesBefore(e1, e2) ==
    \/ e1.b < e2.b
    \/ e1.b = e2.b /\ e1.ph < e2.ph
    \/ e1.b = e2.b /\ e1.ph = e2.ph /\ e1.k < e2.k

LastEntryOn(T, id) ==
    LET S == EntriesOn(T, id)
    IN  CHOOSE e \in S : \A o \in S : o = e \/ ComesBefore(o, e)

\* The last record of the response for this baby.
LastRecordOf(baby) ==
    LET S == {b \in 1..Len(pullResp) : pullResp[b].BabyID = baby}
    IN  pullResp[CHOOSE b \in S : \A o \in S : o <= b]

\* Until sync has returned nil, the file holds what it held when sync was
\* called: also while the transaction is open and after any failed statement
\* or commit.
UnchangedUnlessNil == ~SyncReturnedNil => db = dbBefore

\* C12, as claimed: a failure after the transaction has begun leaves the
\* database exactly as it was before the call; and once sync has returned
\* nil, every baby record's sync time and token are in Babies, every row ID
\* in an Update list of a table is present in it, also if a Remove list of
\* that table names it, and every row ID that only Remove lists name is absent.
C12_AtomicAllApplied ==
    /\ UnchangedUnlessNil
    /\ SyncReturnedNil =>
           /\ \A b \in 1..Len(pullResp) :
                  /\ pullResp[b].BabyID \in DOMAIN db.Babies
                  /\ db.Babies[pullResp[b].BabyID].SyncToken = pullResp[b].SyncToken
                  /\ db.Babies[pullResp[b].BabyID].SyncTime = pullResp[b].SyncTime
           /\ \A T \in {"BabyData", "BabyFeedData"} :
                  /\ \A id \in UpdatedIDs(T) : id \in DOMAIN db[T]
                  /\ \A id \in RemovedIDs(T) \ UpdatedIDs(T) : id \notin DOMAIN db[T]

\* C12, amended: a failure after the transaction has begun leaves the
\* database exactly as it was before the call.  Once sync has returned nil,
\* the statements of the response have all been applied in the order of the
\* response, baby record by baby record, and within a record the Remove list
\* of a table before its Update list:
\*  - Babies has the rows it had; a baby with a row there has the sync time
\*    and token of its last record in the response, and a record for a baby
\*    without a row there stores no sync status;
\*  - a row ID that the response names is present iff its last entry is in an
\*    Update list, with that entry's content; so an ID in both lists of one
\*    record is present unless a later record removes it;
\*  - every other row is as it was.
C12_AtomicAppliedInOrder ==
    /\ UnchangedUnlessNil
    /\ SyncReturnedNil =>
           /\ DOMAIN db.Babies = DOMAIN dbBefore.Babies
           /\ \A baby \in DOMAIN db.Babies :
                  IF \E b \in 1..Len(pullResp) : pullResp[b].BabyID = baby
                  THEN /\ db.Babies[baby].SyncToken = LastRecordOf(baby).SyncToken
                       /\ db.Babies[baby].SyncTime = LastRecordOf(baby).SyncTime
                  ELSE db.Babies[baby] = dbBefore.Babies[baby]
           /\ \A T \in {"BabyData", "BabyFeedData"} :
                  /\ \A id \in RemovedIDs(T) \cup UpdatedIDs(T) :
                         IF LastEntryOn(T, id).ph = 1
                         THEN /\ id \in DOMAIN db[T]
                              /\ db[T][id] = EntryRow(T, LastEntryOn(T, id))
                         ELSE id \notin DOMAIN db[T]
                  /\ \A id \in (DOMAIN db[T] \cup DOMAIN dbBefore[T])
                                  \ (RemovedIDs(T) \cup UpdatedIDs(T)) :
                         /\ id \in DOMAIN db[T] /\ id \in DOMAIN dbBefore[T]
                         /\ db[T][id] = dbBefore[T][id]

\* C12 witness: sync returned nil for a response of two baby records; the
\* first names row 1 of BabyData in both its lists and the row is present
\* with the updated content; the second record's feed update is applied too.
C12_Witness ==
    /\ SyncReturnedNil /\ Len(pullResp) = 2
    /\ \E r \in 1..Len(pullResp[1].BabyData.Remove) :
           pullResp[1].BabyData.Remove[r].ID = 1
    /\ 1 \in DOMAIN dbBefore.BabyData
    /\ 1 \in DOMAIN db.BabyData
    /\ Len(pullResp[1].BabyData.Update) = 1
    /\ db.BabyData[1] = pullResp[1].BabyData.Update[1]
    /\ db.BabyData[1] # dbBefore.BabyData[1]
    /\ Len(pullResp[2].BabyFeedData.Update) > 0
    /\ db.BabyFeedData # dbBefore.BabyFeedData
    /\ db.Babies # dbBefore.Babies

=============================================================================
